---- MODULE Spec2Model ----
(***************************************************************************)
(* Model of the smart-home controller:                                     *)
(*   - src/python/action_executor.py : execute_action, the webhook         *)
(*     dispatcher with its bounded retry loop;                             *)
(*   - src/python/main.py : TextOrchestrator, the dialogue manager.        *)
(*                                                                         *)
(* Python values are modelled as records [t |-> type, s |-> str(value)],   *)
(* an optional value (x | None) as a sequence of length 0 or 1, and a      *)
(* rendered sentence as the sequence of the pieces str.format and          *)
(* str.join put together.                                                  *)
(***************************************************************************)
EXTENDS Integers, Sequences, FiniteSets, TLC

VARIABLES
    \* ---- execute_action (action_executor.py)
    ex_pc,            \* "idle" | "post" (about to POST) | "sleep" (in time.sleep)
    attempt,          \* loop variable of the for loop, 0 outside a call
    request_id,       \* local request_id
    payload,          \* the payload built before the loop
    last_error,       \* local last_error
    outcomes,         \* what each requests.post of the current/last call produced
    sent,             \* request_id carried by the payload at each POST
    sleeps,           \* the time.sleep delays of the current/last call, in ms
    result,           \* <<>> or <<ActionExecutionResult>> returned by the last call
    issued,           \* the uuids uuid.uuid4() has produced so far
    done_ids,         \* request_id of every result returned so far, in order
    \* ---- TextOrchestrator (main.py)
    conversation_history,
    last_function_call,
    last_latency_ms,
    turn,             \* observation of the last process_utterance / reset call
    nturns,           \* number of calls made on the orchestrator
    \* ---- several TextOrchestrator objects in one process (main.py)
    lists,            \* the list objects of the heap, by address
    orchestrators,    \* the fields of each TextOrchestrator object
    module_tables,    \* the module-level dicts the orchestrators share
    fed,              \* per object: the calls made on it, with what slm.invoke did
    replied,          \* per object: what each of those calls returned
    acted,            \* the object the last call was made on (0: none yet)
    \* ---- SLMClient.invoke and generate_slot_elicitation called directly
    fn_called,        \* the last call: the function and its arguments
    fn_returned       \* what that call returned or raised

ex_vars == <<ex_pc, attempt, request_id, payload, last_error, outcomes, sent, sleeps,
             result, issued, done_ids>>
orch_vars == <<conversation_history, last_function_call, last_latency_ms,
               turn, nturns>>
pair_vars == <<lists, orchestrators, module_tables, fed, replied, acted>>
fn_vars == <<fn_called, fn_returned>>
vars == <<ex_vars, orch_vars, pair_vars, fn_vars>>

\* ------------------------------------------------------------------ bounds
\* Number of execute_action calls explored.
MaxCalls == 2
\* Number of calls made on one orchestrator.
MaxTurns == 2
\* Number of calls made on each of several orchestrators.
MaxOps == 2

\* ------------------------------------------------------- optional values
None == <<>>
Some(x) == <<x>>

Min(a, b) == IF a <= b THEN a ELSE b

(***************************************************************************)
(*                     action_executor.py                                  *)
(***************************************************************************)
MAX_RETRIES == 2

\* uuid.uuid4(): the pool the model draws from; uuid4's contract is that a
\* value is not produced twice.
UUIDs == 1..(MaxCalls + 1)

ActionNames == {"toggle_lights"}

\* HTTP statuses a webhook may answer with (1xx..5xx around every branch
\* boundary of lines 67 and 90).
Statuses == {199, 200, 299, 300, 404, 499, 500, 503}

\* Response bodies: response.json() gives a dict (here over the keys the code
\* reads), or another JSON value, or raises ValueError and response.text is
\* used.
NoFields == [k \in {} |-> ""]
DictBodies ==
    { [kind |-> "dict", fields |-> f, text |-> <<>>] :
        f \in { NoFields,
                [k \in {"message"} |-> "created"],
                [k \in {"title"} |-> "foo"],
                [k \in {"message", "title"} |->
                    IF k = "message" THEN "created" ELSE "foo"] } }
\* a response.text longer than the 200 characters kept of it: a space, 200
\* times "a", and "b"
LongText == [i \in 1..202 |-> IF i = 1 THEN " " ELSE IF i = 202 THEN "b" ELSE "a"]
\* response.text, a sequence of characters.
TextBodies ==
    { [kind |-> "text", fields |-> NoFields, text |-> t] :
        t \in {<<>>, <<" ", " ">>, <<" ", "o", "k", " ">>, LongText} }
OtherBodies == { [kind |-> "list", fields |-> NoFields, text |-> <<>>] }
Bodies == DictBodies \cup TextBodies \cup OtherBodies

\* requests.RequestException texts (str(exc)).
ExceptionTexts == {"timed out", "connection refused"}

Outcomes ==
    { [kind |-> "response", status |-> s, body |-> b, text |-> ""] :
        s \in Statuses, b \in Bodies }
    \cup
    { [kind |-> "exception", status |-> 0, body |-> CHOOSE b \in OtherBodies : TRUE,
       text |-> e] : e \in ExceptionTexts }

\* ---- str helpers (lines 71-72)
IsSpace(c) == c \in {" ", "\t", "\n"}

RECURSIVE LStrip(_)
LStrip(t) == IF t # <<>> /\ IsSpace(Head(t)) THEN LStrip(Tail(t)) ELSE t

RECURSIVE RStrip(_)
RStrip(t) ==
    IF t # <<>> /\ IsSpace(t[Len(t)]) THEN RStrip(SubSeq(t, 1, Len(t) - 1)) ELSE t

\* str.strip()
Strip(t) == RStrip(LStrip(t))

\* the characters as one string
RECURSIVE Concat(_)
Concat(t) ==
    IF t = <<>> THEN ""
    ELSE IF Len(t) = 1 THEN t[1]
    ELSE Concat(SubSeq(t, 1, Len(t) \div 2))
         \o Concat(SubSeq(t, Len(t) \div 2 + 1, Len(t)))

MESSAGE_LIMIT == 200

\* lines 67: 200 <= response.status_code < 300
IsSuccess(status) == 200 <= status /\ status < 300

\* lines 68-72 reading title before message
SuccessMessageTitleFirst(body) ==
    IF body.kind = "dict"
    THEN IF "title" \in DOMAIN body.fields THEN body.fields["title"]
         ELSE IF "message" \in DOMAIN body.fields THEN body.fields["message"]
         ELSE "Action accepted"
    ELSE IF body.kind = "text" /\ Strip(body.text) # <<>>
         THEN Concat(SubSeq(Strip(body.text), 1,
                            Min(MESSAGE_LIMIT, Len(Strip(body.text)))))
         ELSE "Action accepted"

\* lines 68-72: the message of a 2xx result
SuccessMessage(body) ==
    IF body.kind = "dict"
    THEN IF "message" \in DOMAIN body.fields THEN body.fields["message"]
         ELSE IF "title" \in DOMAIN body.fields THEN body.fields["title"]
         ELSE "Action accepted"
    ELSE IF body.kind = "text" /\ Strip(body.text) # <<>>
         THEN Concat(SubSeq(Strip(body.text), 1,
                            Min(MESSAGE_LIMIT, Len(Strip(body.text)))))
         ELSE "Action accepted"

\* line 89: f"HTTP {response.status_code}"
HttpErrorText(status) == "HTTP " \o ToString(status)

\* line 90 with the attempts test off by one
ShouldRetryResponseOffByOne(status, att) == status >= 500 /\ att < MAX_RETRIES

\* line 90 retrying client errors too
ShouldRetryResponseFrom400(status, att) == status >= 400 /\ att <= MAX_RETRIES

\* line 90
ShouldRetryResponse(status, att) == status >= 500 /\ att <= MAX_RETRIES

\* line 107
ShouldRetryException(att) == att <= MAX_RETRIES

\* line 46: the attempts range(1, MAX_RETRIES + 2) yields
InLoopRange(att) == 1 <= att /\ att < MAX_RETRIES + 2

\* line 116: time.sleep(0.25 * attempt), in milliseconds
BACKOFF_UNIT_MS == 250
\* line 116 with a delay that doubles with each attempt
SleepDelayDoubling(att) == BACKOFF_UNIT_MS * 2 ^ att

\* line 116: the delay after attempt att
SleepDelay(att) == BACKOFF_UNIT_MS * att

\* lines 80-86 keeping the message only
SuccessResultWithoutBody(rid, o) ==
    [ok |-> TRUE, status_code |-> Some(o.status), message |-> SuccessMessage(o.body),
     request_id |-> rid, raw_response |-> None]

\* lines 80-86
SuccessResult(rid, o) ==
    [ok |-> TRUE, status_code |-> Some(o.status), message |-> SuccessMessage(o.body),
     request_id |-> rid, raw_response |-> Some(o.body)]

\* lines 97-103
RejectedResult(rid, o, err) ==
    [ok |-> FALSE, status_code |-> Some(o.status), message |-> err,
     request_id |-> rid, raw_response |-> Some(o.body)]

\* lines 118-124 returning the initial last_error
ExhaustedResultStale(rid, err) ==
    [ok |-> FALSE, status_code |-> None, message |-> "unknown_error",
     request_id |-> rid, raw_response |-> None]

\* lines 118-124 reporting the first failure of the call instead of the last
ExhaustedResultFirstError(rid, err) ==
    [ok |-> FALSE, status_code |-> None,
     message |-> IF outcomes = <<>> THEN err
                 ELSE IF outcomes[1].kind = "exception" THEN outcomes[1].text
                 ELSE "HTTP " \o ToString(outcomes[1].status),
     request_id |-> rid, raw_response |-> None]

\* lines 118-124
ExhaustedResult(rid, err) ==
    [ok |-> FALSE, status_code |-> None, message |-> err,
     request_id |-> rid, raw_response |-> None]

\* uuid.uuid4() (line 42): a value not produced before
Uuid4Values == UUIDs \ issued

\* line 42 with one request_id made at import time
NewRequestIdShared(rid) == 0

\* line 42: the request_id of a call; rid is what uuid4 returned
NewRequestId(rid) == rid

\* lines 26-32 (arguments and timestamp are not read by the retry loop)
BuildPayload(action, rid) == [action |-> action, request_id |-> rid]

\* the request_id a POST carries: json=payload (line 56)
PostedRequestId == payload.request_id

\* the request_id of the returned result: the local request_id (lines 84, 101, 122)
ResultRequestId == request_id

\* a return statement of execute_action
Return(r) ==
    /\ result' = Some(r)
    /\ done_ids' = Append(done_ids, r.request_id)
    /\ ex_pc' = "idle"

\* lines 42-46: entry of execute_action up to the first POST
Call(action) ==
    /\ ex_pc = "idle"
    /\ Len(done_ids) < MaxCalls
    /\ \E u \in Uuid4Values :
        /\ issued' = issued \cup {u}
        /\ request_id' = NewRequestId(u)
        /\ payload' = BuildPayload(action, request_id')
    /\ last_error' = "unknown_error"
    /\ attempt' = 1
    /\ outcomes' = <<>>
    /\ sent' = <<>>
    /\ sleeps' = <<>>
    /\ result' = None
    /\ ex_pc' = "post"
    /\ UNCHANGED <<done_ids, orch_vars, pair_vars, fn_vars>>

\* lines 47-114: one pass of the try block, o is what requests.post produced
Post(o) ==
    /\ ex_pc = "post"
    /\ outcomes' = Append(outcomes, o)
    /\ sent' = Append(sent, PostedRequestId)
    /\ IF o.kind = "response"
       THEN IF IsSuccess(o.status)
            THEN /\ Return(SuccessResult(ResultRequestId, o))
                 /\ UNCHANGED last_error
            ELSE /\ last_error' = HttpErrorText(o.status)
                 /\ IF ~ShouldRetryResponse(o.status, attempt)
                    THEN Return(RejectedResult(ResultRequestId, o, last_error'))
                    ELSE ex_pc' = "sleep" /\ UNCHANGED <<result, done_ids>>
       ELSE /\ last_error' = o.text
            /\ IF ~ShouldRetryException(attempt)
               THEN Return(ExhaustedResult(ResultRequestId, last_error'))
               ELSE ex_pc' = "sleep" /\ UNCHANGED <<result, done_ids>>
    /\ UNCHANGED <<attempt, request_id, payload, sleeps, issued, orch_vars, pair_vars,
                   fn_vars>>

\* line 116 and the loop header: sleep, then the next attempt, or the return
\* after the loop (lines 118-124) when the range is used up
Sleep ==
    /\ ex_pc = "sleep"
    /\ sleeps' = Append(sleeps, SleepDelay(attempt))
    /\ IF InLoopRange(attempt + 1)
       THEN /\ attempt' = attempt + 1
            /\ ex_pc' = "post"
            /\ UNCHANGED <<result, done_ids>>
       ELSE /\ Return(ExhaustedResult(ResultRequestId, last_error))
            /\ UNCHANGED attempt
    /\ UNCHANGED <<request_id, payload, last_error, outcomes, sent, issued, orch_vars,
                   pair_vars, fn_vars>>

(***************************************************************************)
(*                            main.py                                      *)
(***************************************************************************)
\* ---- Python values: [t |-> type, s |-> str(value)]
PyNone == [t |-> "none", s |-> "None"]
PyFalse == [t |-> "bool", s |-> "False"]
PyStr(x) == [t |-> "str", s |-> x]
PyInt(n) == [t |-> "int", s |-> ToString(n)]

\* bool(value)
Truthy(v) ==
    ~ \/ v.t = "none"
      \/ (v.t = "bool" /\ v.s = "False")
      \/ (v.t = "str" /\ v.s = "")
      \/ (v.t = "int" /\ v.s = "0")

\* dict.get(key, default)
DictGet(d, k, default) == IF k \in DOMAIN d THEN d[k] ELSE default

\* ---- rendered text: the sequence of its non-empty pieces
TextOf(x) == IF x = "" THEN <<>> ELSE <<x>>

RECURSIVE Flatten(_)
Flatten(ss) == IF ss = <<>> THEN <<>> ELSE Head(ss) \o Flatten(Tail(ss))

\* ---- the dict literals of main.py
EmptyDict == [k \in {} |-> PyNone]

\* lines 32-185: the argument names each tool's schema declares ("properties")
TOOLS_PROPERTIES ==
    [n \in {"toggle_lights", "set_thermostat", "lock_door", "get_device_status",
            "set_scene", "intent_unclear"} |->
        CASE n = "toggle_lights" -> {"room", "state"}
          [] n = "set_thermostat" -> {"temperature", "mode"}
          [] n = "lock_door" -> {"door", "state"}
          [] n = "get_device_status" -> {"device_type", "room"}
          [] n = "set_scene" -> {"scene"}
          [] n = "intent_unclear" -> {"reason"}]

\* lines 190-197
FUNCTION_REQUIRED_ARGS ==
    [n \in {"toggle_lights", "set_thermostat", "lock_door", "get_device_status",
            "set_scene", "intent_unclear"} |->
        CASE n = "toggle_lights" -> <<"room", "state">>
          [] n = "set_thermostat" -> <<"temperature">>
          [] n = "lock_door" -> <<"door", "state">>
          [] n = "get_device_status" -> <<"device_type">>
          [] n = "set_scene" -> <<"scene">>
          [] n = "intent_unclear" -> <<>>]

\* lines 199-219
INDIVIDUAL_SLOT_PROMPTS ==
    [n \in {"toggle_lights", "set_thermostat", "lock_door", "get_device_status",
            "set_scene"} |->
        CASE n = "toggle_lights" ->
                [a \in {"room", "state"} |->
                    IF a = "room"
                    THEN "which room (living room, bedroom, kitchen, bathroom, office, or hallway)"
                    ELSE "whether to turn them on or off"]
          [] n = "set_thermostat" ->
                [a \in {"temperature", "mode"} |->
                    IF a = "temperature"
                    THEN "what temperature (60-80°F)"
                    ELSE "the mode (heat, cool, or auto)"]
          [] n = "lock_door" ->
                [a \in {"door", "state"} |->
                    IF a = "door"
                    THEN "which door (front, back, garage, or side)"
                    ELSE "whether to lock or unlock it"]
          [] n = "get_device_status" ->
                [a \in {"device_type", "room"} |->
                    IF a = "device_type"
                    THEN "which device type (lights, thermostat, door, or all)"
                    ELSE "which room or location"]
          [] n = "set_scene" ->
                [a \in {"scene"} |->
                    "which scene (movie night, bedtime, morning, away, or party)"]]

\* lines 221-227
SCENE_DESCRIPTIONS ==
    [sc \in {"movie_night", "bedtime", "morning", "away", "party"} |->
        CASE sc = "movie_night" -> "Living room lights dimmed, thermostat set to 72°F."
          [] sc = "bedtime" -> "All lights off, doors locked, thermostat set to 68°F."
          [] sc = "morning" -> "Kitchen and hallway lights on, thermostat set to 72°F."
          [] sc = "away" -> "All lights off, all doors locked, thermostat set to 65°F."
          [] sc = "party" -> "Living room and kitchen lights on, thermostat set to 70°F."]

\* lines 229-236
ROOM_DISPLAY ==
    [r \in {"living_room", "bedroom", "kitchen", "bathroom", "office", "hallway"} |->
        IF r = "living_room" THEN "living room" ELSE r]

\* A template is the sequence of its literal pieces and replacement fields.
Lit(x) == [field |-> FALSE, s |-> x]
Fld(k) == [field |-> TRUE, s |-> k]

\* lines 238-245
SUCCESS_TEMPLATES ==
    [n \in {"toggle_lights", "set_thermostat", "lock_door", "get_device_status",
            "set_scene", "intent_unclear"} |->
        CASE n = "toggle_lights" ->
                <<Lit("Done. The "), Fld("display_room"), Lit(" lights are now "),
                  Fld("state"), Lit(".")>>
          [] n = "set_thermostat" ->
                <<Lit("Done. Thermostat set to "), Fld("temperature"), Lit("°F"),
                  Fld("mode_suffix"), Lit(".")>>
          [] n = "lock_door" ->
                <<Lit("Done. The "), Fld("door"), Lit(" door is now "), Fld("state"),
                  Lit("ed.")>>
          [] n = "get_device_status" -> <<Fld("status_report")>>
          [] n = "set_scene" ->
                <<Lit("Done. \""), Fld("scene"), Lit("\" scene activated. "),
                  Fld("scene_details")>>
          [] n = "intent_unclear" -> <<>>]

\* the default of SUCCESS_TEMPLATES.get(function, "Done.") (line 429)
DefaultTemplate == <<Lit("Done.")>>

\* lines 398-400 testing truthiness instead of "is None"
GetMissingArgsFalsy(function_name, arguments) ==
    LET required == DictGet(FUNCTION_REQUIRED_ARGS, function_name, <<>>)
        IsMissing(a) == ~Truthy(DictGet(arguments, a, PyNone))
    IN  SelectSeq(required, IsMissing)

\* lines 398-400
GetMissingArgs(function_name, arguments) ==
    LET required == DictGet(FUNCTION_REQUIRED_ARGS, function_name, <<>>)
        IsMissing(a) == DictGet(arguments, a, PyNone) = PyNone
    IN  SelectSeq(required, IsMissing)

\* lines 402-413
GenerateClarificationResponse ==
    <<"I didn't quite understand that. Could you tell me what you need? ",
      "I can help you ",
      "control lights", ", ", "set the thermostat", ", ", "lock or unlock doors", ", ",
      "check device status", ", ", "or activate scenes", ".">>

\* line 421 leaving the underscores in place
UnderscoreKept(a) == a

\* arg.replace('_', ' ') on the argument names of the model
UnderscoreToSpace(a) ==
    CASE a = "device_type" -> "device type"
      [] OTHER -> a

\* ', '.join(parts)
RECURSIVE Join(_, _)
Join(sep, parts) ==
    IF parts = <<>> THEN <<>>
    ELSE IF Len(parts) = 1 THEN <<parts[1]>>
    ELSE <<parts[1], sep>> \o Join(sep, Tail(parts))

\* lines 419-422
SlotQuestions(function, missing_args) ==
    LET individual == DictGet(INDIVIDUAL_SLOT_PROMPTS, function, [a \in {} |-> ""])
    IN  [i \in 1..Len(missing_args) |->
            DictGet(individual, missing_args[i],
                    "the " \o UnderscoreToSpace(missing_args[i]))]

\* lines 415-425 asking for the first missing slot only
GenerateSlotElicitationFirstOnly(function, missing_args) ==
    <<"Could you provide ", SlotQuestions(function, missing_args)[1], "?">>

\* lines 415-425 (called with a non-empty missing_args only)
GenerateSlotElicitation(function, missing_args) ==
    LET questions == SlotQuestions(function, missing_args)
        n == Len(questions)
    IN  IF n = 1
        THEN <<"Could you provide ", questions[1], "?">>
        ELSE <<"Could you provide ">> \o Join(", ", SubSeq(questions, 1, n - 1))
             \o <<", and ", questions[n], "?">>

\* str(ROOM_DISPLAY.get(room, room)) (lines 436, 458)
RoomDisplay(room) ==
    IF room.t = "str" /\ room.s \in DOMAIN ROOM_DISPLAY THEN ROOM_DISPLAY[room.s]
    ELSE room.s

\* lines 452-476: every report the random draws can produce
SimulateDeviceStatus(arguments) ==
    LET device_type == DictGet(arguments, "device_type", PyStr("all"))
        room == DictGet(arguments, "room", PyStr(""))
    IN  IF device_type = PyStr("lights")
        THEN { <<"The ">> \o TextOf(IF Truthy(room) THEN RoomDisplay(room) ELSE "the")
               \o <<" ", "lights", " are currently ", state, ".">> :
                    state \in {"on", "off"} }
        ELSE IF device_type = PyStr("thermostat")
        THEN { <<"The ", "thermostat", " is set to ", ToString(temp), "°F in ", mode,
                 " mode.">> : temp \in 65..75, mode \in {"heat", "cool", "auto"} }
        ELSE IF device_type = PyStr("door")
        THEN { <<"The ">> \o TextOf(IF Truthy(room) THEN room.s ELSE "front")
               \o <<" ", "door", " is currently ", state, ".">> :
                    state \in {"locked", "unlocked"} }
        ELSE { <<"Lights: mixed (some on, some off). ", "Thermostat: ", ToString(temp),
                 "°F. ", "Doors: front locked, back locked, garage unlocked.">> :
                    temp \in 65..75 }

\* lines 432-450 with the room of toggle_lights drawn at random
CallBackendApiAnyRoom(function, arguments) ==
    IF function = "toggle_lights"
    THEN { [k \in {"display_room"} |-> TextOf(ROOM_DISPLAY[room])] :
                room \in DOMAIN ROOM_DISPLAY }
    ELSE IF function = "set_thermostat"
    THEN LET mode == DictGet(arguments, "mode", PyNone)
         IN  { [k \in {"mode_suffix"} |->
                    IF Truthy(mode) THEN <<" in ", mode.s, " mode">> ELSE <<>>] }
    ELSE IF function = "get_device_status"
    THEN { [k \in {"status_report"} |-> r] : r \in SimulateDeviceStatus(arguments) }
    ELSE IF function = "set_scene"
    THEN LET scene == DictGet(arguments, "scene", PyStr(""))
         IN  { [k \in {"scene_details"} |->
                    IF scene.t = "str" /\ scene.s \in DOMAIN SCENE_DESCRIPTIONS
                    THEN TextOf(SCENE_DESCRIPTIONS[scene.s]) ELSE <<>>] }
    ELSE { [k \in {} |-> <<>>] }

\* lines 432-450: every dict the simulated backend can return (key -> text)
CallBackendApi(function, arguments) ==
    IF function = "toggle_lights"
    THEN { [k \in {"display_room"} |->
                TextOf(RoomDisplay(DictGet(arguments, "room", PyStr(""))))] }
    ELSE IF function = "set_thermostat"
    THEN LET mode == DictGet(arguments, "mode", PyNone)
         IN  { [k \in {"mode_suffix"} |->
                    IF Truthy(mode) THEN <<" in ", mode.s, " mode">> ELSE <<>>] }
    ELSE IF function = "get_device_status"
    THEN { [k \in {"status_report"} |-> r] : r \in SimulateDeviceStatus(arguments) }
    ELSE IF function = "set_scene"
    THEN LET scene == DictGet(arguments, "scene", PyStr(""))
         IN  { [k \in {"scene_details"} |->
                    IF scene.t = "str" /\ scene.s \in DOMAIN SCENE_DESCRIPTIONS
                    THEN TextOf(SCENE_DESCRIPTIONS[scene.s]) ELSE <<>>] }
    ELSE { [k \in {} |-> <<>>] }

\* line 430 returning the template without substituting its fields
FormatUnrendered(template, arguments, api_result) ==
    [kind |-> "reply", exc |-> "",
     text |-> Flatten([i \in 1..Len(template) |->
                          TextOf(IF template[i].field THEN "{" \o template[i].s \o "}"
                                 ELSE template[i].s)])]

\* str.format(**arguments, **api_result) (line 430): a keyword given twice is a
\* TypeError, a replacement field without a keyword a KeyError
Format(template, arguments, api_result) ==
    LET kw(k) == IF k \in DOMAIN api_result THEN api_result[k]
                 ELSE TextOf(arguments[k].s)
        piece(i) == IF template[i].field THEN kw(template[i].s)
                    ELSE TextOf(template[i].s)
    IN  IF DOMAIN arguments \cap DOMAIN api_result # {}
        THEN [kind |-> "raise", exc |-> "TypeError", text |-> <<>>]
        ELSE IF \E i \in 1..Len(template) :
                    /\ template[i].field
                    /\ template[i].s \notin DOMAIN arguments \cup DOMAIN api_result
        THEN [kind |-> "raise", exc |-> "KeyError", text |-> <<>>]
        ELSE [kind |-> "reply", exc |-> "",
              text |-> Flatten([i \in 1..Len(template) |-> piece(i)])]

\* lines 427-430 calling the backend a second time for the template
ExecuteAndRespondTwice(function, arguments) ==
    { [out |-> Format(DictGet(SUCCESS_TEMPLATES, function, DefaultTemplate),
                      arguments, api_result),
       route |-> "execute",
       calls |-> <<"call_backend_api", "call_backend_api">>] :
        api_result \in CallBackendApi(function, arguments) }

\* lines 427-430: every outcome of execute_and_respond, with the collaborators
\* it called
ExecuteAndRespond(function, arguments) ==
    { [out |-> Format(DictGet(SUCCESS_TEMPLATES, function, DefaultTemplate),
                      arguments, api_result),
       route |-> "execute",
       calls |-> <<"call_backend_api">>] :
        api_result \in CallBackendApi(function, arguments) }

\* lines 385-396 calling the backend before the missing-argument test
HandleFunctionCallEager(function_call) ==
    LET name == function_call.name
        arguments == function_call.arguments
        missing == GetMissingArgs(name, arguments)
    IN  IF name = "intent_unclear"
        THEN { [out |-> [kind |-> "reply", exc |-> "",
                         text |-> GenerateClarificationResponse],
                route |-> "clarify", calls |-> <<>>] }
        ELSE IF missing # <<>>
        THEN { [out |-> [kind |-> "reply", exc |-> "",
                         text |-> GenerateSlotElicitation(name, missing)],
                route |-> "elicit", calls |-> <<"call_backend_api">>] }
        ELSE ExecuteAndRespond(name, arguments)

\* lines 385-396 treating a name outside FUNCTION_REQUIRED_ARGS as unclear
HandleFunctionCallStrict(function_call) ==
    LET name == function_call.name
        arguments == function_call.arguments
        missing == GetMissingArgs(name, arguments)
    IN  IF name = "intent_unclear" \/ name \notin DOMAIN FUNCTION_REQUIRED_ARGS
        THEN { [out |-> [kind |-> "reply", exc |-> "",
                         text |-> GenerateClarificationResponse],
                route |-> "clarify", calls |-> <<>>] }
        ELSE IF missing # <<>>
        THEN { [out |-> [kind |-> "reply", exc |-> "",
                         text |-> GenerateSlotElicitation(name, missing)],
                route |-> "elicit", calls |-> <<>>] }
        ELSE ExecuteAndRespond(name, arguments)

\* lines 385-396 answering an intent_unclear call by its reason
HandleFunctionCallByReason(function_call) ==
    LET name == function_call.name
        arguments == function_call.arguments
        missing == GetMissingArgs(name, arguments)
        reason == DictGet(arguments, "reason", PyNone)
    IN  IF name = "intent_unclear"
        THEN { [out |-> [kind |-> "reply", exc |-> "",
                         text |-> IF Truthy(reason)
                                  THEN <<"I can't help with that: ", reason.s>>
                                  ELSE GenerateClarificationResponse],
                route |-> "clarify", calls |-> <<>>] }
        ELSE IF missing # <<>>
        THEN { [out |-> [kind |-> "reply", exc |-> "",
                         text |-> GenerateSlotElicitation(name, missing)],
                route |-> "elicit", calls |-> <<>>] }
        ELSE ExecuteAndRespond(name, arguments)

\* lines 385-396
HandleFunctionCall(function_call) ==
    LET name == function_call.name
        arguments == function_call.arguments
        missing == GetMissingArgs(name, arguments)
    IN  IF name = "intent_unclear"
        THEN { [out |-> [kind |-> "reply", exc |-> "",
                         text |-> GenerateClarificationResponse],
                route |-> "clarify", calls |-> <<>>] }
        ELSE IF missing # <<>>
        THEN { [out |-> [kind |-> "reply", exc |-> "",
                         text |-> GenerateSlotElicitation(name, missing)],
                route |-> "elicit", calls |-> <<>>] }
        ELSE ExecuteAndRespond(name, arguments)

\* ---- what the completion client (SLMClient.invoke, lines 278-318) hands back
SlmCall(name, arguments) ==
    [kind |-> "call", name |-> name, arguments |-> arguments, text |-> ""]
SlmFailure ==
    [kind |-> "failure", name |-> "", arguments |-> EmptyDict,
     text |-> "No valid tool call in SLM response, model returned ..."]
\* a transport fault of the completion call: invoke raises
SlmRaise ==
    [kind |-> "raise", name |-> "", arguments |-> EmptyDict,
     text |-> "APIConnectionError"]
NoSlm == [kind |-> "none", name |-> "", arguments |-> EmptyDict, text |-> ""]

\* every dict over the keys of table, each key absent or one of its values
DictsOver(table) ==
    UNION { { f \in [S -> UNION { table[k] : k \in S }] :
                \A k \in S : f[k] \in table[k] } : S \in SUBSET DOMAIN table }

\* d with one more key
With(d, key, v) == [k \in DOMAIN d \cup {key} |-> IF k = key THEN v ELSE d[k]]

ToggleLightsArgs ==
    DictsOver([k \in {"room", "state"} |->
                IF k = "room" THEN {PyNone, PyStr("living_room"), PyStr("")}
                ELSE {PyStr("on"), PyFalse}])
    \cup { With(With(With(EmptyDict, "room", PyStr("kitchen")), "state", PyStr("off")),
                key, PyStr("den")) : key \in {"display_room", "brightness"} }

SetThermostatArgs ==
    DictsOver([k \in {"temperature", "mode"} |->
                IF k = "temperature" THEN {PyNone, PyInt(70), PyInt(0)}
                ELSE {PyNone, PyStr("heat"), PyStr("")}])
    \cup { With(With(EmptyDict, "temperature", PyInt(70)), "mode_suffix", PyStr("!")) }

LockDoorArgs ==
    DictsOver([k \in {"door", "state"} |->
                IF k = "door" THEN {PyNone, PyStr("garage")}
                ELSE {PyNone, PyStr("lock")}])

GetDeviceStatusArgs ==
    DictsOver([k \in {"device_type"} |->
                {PyNone, PyStr("lights"), PyStr("thermostat"), PyStr("door"),
                 PyStr("all")}])
    \cup { With(With(EmptyDict, "room", PyStr("kitchen")), "device_type", PyStr(d)) :
            d \in {"lights", "door"} }
    \cup { With(EmptyDict, "room", PyStr("kitchen")) }

SetSceneArgs ==
    DictsOver([k \in {"scene"} |-> {PyNone, PyStr("bedtime"), PyStr("disco")}])
    \cup { With(With(EmptyDict, "scene", PyStr("bedtime")), "scene_details", PyStr("x")) }

IntentUnclearArgs ==
    DictsOver([k \in {"reason"} |-> {PyNone, PyStr("off_topic")}])

\* a name FUNCTION_REQUIRED_ARGS does not hold
UnknownArgs ==
    DictsOver([k \in {"door"} |-> {PyNone, PyStr("garage")}])

\* the function calls the completion client is made to return
FunctionCalls ==
    { SlmCall("toggle_lights", a) : a \in ToggleLightsArgs }
    \cup { SlmCall("set_thermostat", a) : a \in SetThermostatArgs }
    \cup { SlmCall("lock_door", a) : a \in LockDoorArgs }
    \cup { SlmCall("get_device_status", a) : a \in GetDeviceStatusArgs }
    \cup { SlmCall("set_scene", a) : a \in SetSceneArgs }
    \cup { SlmCall("intent_unclear", a) : a \in IntentUnclearArgs }
    \cup { SlmCall("open_garage", a) : a \in UnknownArgs }

SlmResults == FunctionCalls \cup {SlmFailure, SlmRaise}

\* latency_ms measured by invoke (lines 282-291)
Latencies == {12}

Transcripts == {"Turn on the lights.", "quit", "EXIT", "Quit"}

\* line 336 comparing the transcript as typed
LowerSkipped(t) == t

\* str.lower() on the transcripts of the model
Lower(t) ==
    CASE t = "EXIT" -> "exit"
      [] t = "Quit" -> "quit"
      [] t = "Turn on the lights." -> "turn on the lights."
      [] OTHER -> t

\* what slm.invoke can produce in a turn on t: it is not called (line 337) when
\* t is an exit sentinel
SlmResultsFor(t) == IF Lower(t) \in {"quit", "exit"} THEN {NoSlm} ELSE SlmResults

\* json.dumps(arguments): the JSON text of a dict
JsonDumps(d) == [json |-> d]

\* the history entries (lines 340, 352, 361-372, 377)
UserTurn(transcript) ==
    [role |-> "user", content |-> Some(TextOf(transcript)), tool_calls |-> None]
\* line 352 recording the clarification message in place of the empty content
AssistantTextTurnNeverEmpty(text) ==
    [role |-> "assistant",
     content |-> Some(IF text = <<>> THEN GenerateClarificationResponse ELSE text),
     tool_calls |-> None]

\* lines 352, 377
AssistantTextTurn(text) ==
    [role |-> "assistant", content |-> Some(text), tool_calls |-> None]

\* lines 355-373 recording a call with a missing required argument as an empty
\* assistant text placeholder
AssistantToolCallTurnIfComplete(function_call) ==
    IF GetMissingArgs(function_call.name, function_call.arguments) # <<>>
    THEN [role |-> "assistant", content |-> Some(<<>>), tool_calls |-> None]
    ELSE [role |-> "assistant", content |-> None,
          tool_calls |-> Some([type |-> "function",
                               function |-> [name |-> function_call.name,
                                             arguments |->
                                                [json |-> function_call.arguments]]])]

\* lines 361-372
AssistantToolCallTurn(function_call) ==
    [role |-> "assistant", content |-> None,
     tool_calls |-> Some([type |-> "function",
                          function |-> [name |-> function_call.name,
                                        arguments |-> JsonDumps(function_call.arguments)]])]

NoOut == [kind |-> "none", exc |-> "", text |-> <<>>]

\* lines 334-378: one call of process_utterance, slm being what slm.invoke does
ProcessUtterance(transcript, slm, latency_ms) ==
    /\ nturns < MaxTurns
    /\ nturns' = nturns + 1
    /\ IF Lower(transcript) \in {"quit", "exit"}
       THEN /\ turn' = [op |-> "utterance", transcript |-> transcript, slm |-> NoSlm,
                        out |-> [kind |-> "end", exc |-> "", text |-> <<>>],
                        route |-> "none", calls |-> <<>>]
            /\ UNCHANGED <<conversation_history, last_function_call, last_latency_ms>>
       ELSE LET h1 == Append(conversation_history, UserTurn(transcript))
            IN  IF slm.kind = "raise"
                THEN /\ conversation_history' = h1
                     /\ turn' = [op |-> "utterance", transcript |-> transcript,
                                 slm |-> slm,
                                 out |-> [kind |-> "raise", exc |-> slm.text,
                                          text |-> <<>>],
                                 route |-> "none", calls |-> <<"slm.invoke">>]
                     /\ UNCHANGED <<last_function_call, last_latency_ms>>
                ELSE /\ last_function_call' = Some(slm)
                     /\ last_latency_ms' = latency_ms
                     /\ IF slm.kind = "failure"
                        THEN /\ conversation_history' =
                                    Append(h1, AssistantTextTurn(<<>>))
                             /\ turn' = [op |-> "utterance", transcript |-> transcript,
                                         slm |-> slm,
                                         out |-> [kind |-> "reply", exc |-> "",
                                                  text |-> GenerateClarificationResponse],
                                         route |-> "clarify",
                                         calls |-> <<"slm.invoke">>]
                        ELSE LET h2 == Append(h1, AssistantToolCallTurn(slm))
                             IN  \E r \in HandleFunctionCall(slm) :
                                    /\ conversation_history' =
                                         IF r.out.kind = "reply"
                                         THEN Append(h2, AssistantTextTurn(r.out.text))
                                         ELSE h2
                                    /\ turn' = [op |-> "utterance",
                                                transcript |-> transcript, slm |-> slm,
                                                out |-> r.out, route |-> r.route,
                                                calls |-> <<"slm.invoke">> \o r.calls]
    /\ UNCHANGED <<ex_vars, pair_vars, fn_vars>>

\* lines 380-383 without lines 382-383
ResetHistoryOnly ==
    /\ conversation_history' = <<>>
    /\ turn' = [op |-> "reset", transcript |-> "", slm |-> NoSlm, out |-> NoOut,
                route |-> "none", calls |-> <<>>]
    /\ UNCHANGED <<last_function_call, last_latency_ms, nturns, ex_vars, pair_vars,
                   fn_vars>>

\* lines 380-383
Reset ==
    /\ conversation_history' = <<>>
    /\ last_function_call' = None
    /\ last_latency_ms' = 0
    /\ turn' = [op |-> "reset", transcript |-> "", slm |-> NoSlm, out |-> NoOut,
                route |-> "none", calls |-> <<>>]
    /\ UNCHANGED <<nturns, ex_vars, pair_vars, fn_vars>>

(***************************************************************************)
(*        several TextOrchestrator objects in one Python process           *)
(***************************************************************************)
\* the orchestrators constructed, each with its own SLMClient
Instances == {1, 2}

\* the addresses a list object can have: one list per orchestrator and the
\* one reset() makes while the old list is still referenced
Addresses == 1..(Cardinality(Instances) + 1)

\* lines 251-265
SYSTEM_PROMPT ==
    [role |-> "system",
     content |->
        "You are a tool-calling model working on:\n"
        \o "<task_description>You are an on-device smart home controller. "
        \o "Given a natural language command from the user, call the appropriate "
        \o "smart home function. If the user does not specify a required value "
        \o "(e.g. which room or what temperature), omit that parameter from the "
        \o "function call. Maintain context across conversation turns to resolve "
        \o "pronouns and sequential commands.</task_description>\n\n"
        \o "Respond to the conversation history by generating an appropriate tool call that "
        \o "satisfies the user request. Generate only the tool call according to the provided "
        \o "tool schema, do not generate anything else. Always respond with a tool call.\n\n"]

\* the module-level objects every orchestrator reads (lines 190-265)
ModuleTables ==
    [FUNCTION_REQUIRED_ARGS |-> FUNCTION_REQUIRED_ARGS,
     INDIVIDUAL_SLOT_PROMPTS |-> INDIVIDUAL_SLOT_PROMPTS,
     SCENE_DESCRIPTIONS |-> SCENE_DESCRIPTIONS,
     ROOM_DISPLAY |-> ROOM_DISPLAY,
     SUCCESS_TEMPLATES |-> SUCCESS_TEMPLATES,
     SYSTEM_PROMPT |-> SYSTEM_PROMPT]

\* line 330 with one list object behind every orchestrator's history
InitListShared(i) == 1

\* line 330: __init__ binds conversation_history to a list of its own
InitList(i) == i

\* the list objects some orchestrator's conversation_history refers to
Referenced(orchs) == { orchs[i].conversation_history : i \in Instances }

\* line 381: the list object [] creates, one nothing refers to yet
NewList(orchs) ==
    CHOOSE a \in Addresses \ Referenced(orchs) :
        \A b \in Addresses \ Referenced(orchs) : a <= b

\* self.conversation_history of orchestrator i, read through its reference
HistoryOf(i) == lists[orchestrators[i].conversation_history]

\* lines 334-378: every way one process_utterance call can end on an
\* orchestrator whose history list holds history; assigned tells whether
\* lines 344-345 were reached
ProcessUtteranceOutcomes(history, transcript, slm) ==
    IF Lower(transcript) \in {"quit", "exit"}
    THEN { [history |-> history, assigned |-> FALSE, slm |-> NoSlm,
            out |-> [kind |-> "end", exc |-> "", text |-> <<>>],
            route |-> "none", calls |-> <<>>] }
    ELSE LET h1 == Append(history, UserTurn(transcript))
         IN  IF slm.kind = "raise"
             THEN { [history |-> h1, assigned |-> FALSE, slm |-> slm,
                     out |-> [kind |-> "raise", exc |-> slm.text, text |-> <<>>],
                     route |-> "none", calls |-> <<"slm.invoke">>] }
             ELSE IF slm.kind = "failure"
             THEN { [history |-> Append(h1, AssistantTextTurn(<<>>)),
                     assigned |-> TRUE, slm |-> slm,
                     out |-> [kind |-> "reply", exc |-> "",
                              text |-> GenerateClarificationResponse],
                     route |-> "clarify", calls |-> <<"slm.invoke">>] }
             ELSE LET h2 == Append(h1, AssistantToolCallTurn(slm))
                  IN  { [history |-> IF r.out.kind = "reply"
                                     THEN Append(h2, AssistantTextTurn(r.out.text))
                                     ELSE h2,
                         assigned |-> TRUE, slm |-> slm,
                         out |-> r.out, route |-> r.route,
                         calls |-> <<"slm.invoke">> \o r.calls] :
                            r \in HandleFunctionCall(slm) }

\* lines 334-378 on orchestrator i: the appends go to the list object its
\* conversation_history refers to
ProcessUtteranceOn(i, transcript, slm, latency_ms) ==
    /\ Len(fed[i]) < MaxOps
    /\ LET a == orchestrators[i].conversation_history
       IN  \E r \in ProcessUtteranceOutcomes(lists[a], transcript, slm) :
            /\ lists' = [lists EXCEPT ![a] = r.history]
            /\ orchestrators' =
                IF r.assigned
                THEN [orchestrators EXCEPT ![i].last_function_call = Some(slm),
                                           ![i].last_latency_ms = latency_ms]
                ELSE orchestrators
            /\ fed' = [fed EXCEPT ![i] =
                        Append(@, [op |-> "utterance", transcript |-> transcript,
                                   slm |-> r.slm])]
            /\ replied' = [replied EXCEPT ![i] = Append(@, r.out)]
    /\ acted' = i
    /\ UNCHANGED <<module_tables, ex_vars, orch_vars, fn_vars>>

\* lines 380-383 on orchestrator i: conversation_history is bound to a new
\* list; the old list is freed when no orchestrator refers to it any more
ResetOn(i) ==
    /\ Len(fed[i]) < MaxOps
    /\ LET old == orchestrators[i].conversation_history
           new == NewList(orchestrators)
           kept == { orchestrators[j].conversation_history : j \in Instances \ {i} }
       IN  /\ lists' = [a \in Addresses |->
                            IF a = new \/ (a = old /\ old \notin kept) THEN <<>>
                            ELSE lists[a]]
           /\ orchestrators' =
                [orchestrators EXCEPT ![i] =
                    [conversation_history |-> new, last_function_call |-> None,
                     last_latency_ms |-> 0]]
    /\ fed' = [fed EXCEPT ![i] =
                Append(@, [op |-> "reset", transcript |-> "", slm |-> NoSlm])]
    /\ replied' = [replied EXCEPT ![i] = Append(@, NoOut)]
    /\ acted' = i
    /\ UNCHANGED <<module_tables, ex_vars, orch_vars, fn_vars>>

\* what the completion clients are made to return to the orchestrators
PairSlmResults ==
    { SlmFailure,
      SlmCall("get_device_status", [k \in {"device_type"} |-> PyStr("lights")]),
      SlmCall("toggle_lights",
              [k \in {"room", "state"} |->
                    IF k = "room" THEN PyStr("living_room") ELSE PyStr("on")]),
      SlmCall("lock_door", [k \in {"door"} |-> PyStr("garage")]) }

PairTranscripts == {"Turn on the lights.", "quit"}

PairSlmResultsFor(t) ==
    IF Lower(t) \in {"quit", "exit"} THEN {NoSlm} ELSE PairSlmResults

(***************************************************************************)
(*     SLMClient.invoke and generate_slot_elicitation, called directly     *)
(***************************************************************************)
\* ---- a str: the pieces of its characters and, when the characters are a
\* JSON document, the value that document encodes
Text(chars) == [chars |-> chars, json |-> None]
JsonText(chars, value) == [chars |-> chars, json |-> Some(value)]

\* ---- what json.loads returns: the JSON type jt and, by type, the number n,
\* the str text, the dict d or the list items
JNull == [jt |-> "null", n |-> 0, text |-> Text(<<>>), d |-> <<>>, items |-> <<>>]
JTrue == [jt |-> "true", n |-> 0, text |-> Text(<<>>), d |-> <<>>, items |-> <<>>]
JNumber(k) == [jt |-> "number", n |-> k, text |-> Text(<<>>), d |-> <<>>, items |-> <<>>]
JString(t) == [jt |-> "string", n |-> 0, text |-> t, d |-> <<>>, items |-> <<>>]
JArray(xs) == [jt |-> "array", n |-> 0, text |-> Text(<<>>), d |-> <<>>, items |-> xs]
JObject(f) == [jt |-> "object", n |-> 0, text |-> Text(<<>>), d |-> f, items |-> <<>>]

\* json.loads(text): the value the document encodes, or JSONDecodeError
JsonLoads(text) ==
    IF text.json = None THEN [ok |-> FALSE, value |-> JNull]
    ELSE [ok |-> TRUE, value |-> text.json[1]]

\* str.strip() (line 305): white space around a JSON document is not part of
\* what it encodes; a blank text is no document
StripText(text) ==
    [chars |-> Strip(text.chars),
     json |-> IF Strip(text.chars) = <<>> THEN None ELSE text.json]

\* isinstance(value, str)
IsStr(value) == value.jt = "string"

\* "name" in parsed (line 307): a key of a dict, an element of a list, a
\* substring of a str, a TypeError on anything else
HasName(parsed) ==
    CASE parsed.jt = "object" -> [ok |-> TRUE, value |-> "name" \in DOMAIN parsed.d]
      [] parsed.jt = "array" ->
            [ok |-> TRUE,
             value |-> \E i \in 1..Len(parsed.items) :
                            /\ IsStr(parsed.items[i])
                            /\ parsed.items[i].text.chars = <<"name">>]
      [] parsed.jt = "string" ->
            [ok |-> TRUE,
             value |-> \E i \in 1..Len(parsed.text.chars) :
                            parsed.text.chars[i] = "name"]
      [] OTHER -> [ok |-> FALSE, value |-> FALSE]

EmptyObject == JObject([k \in {} |-> JNull])

\* ---- what invoke does: it returns a call or the failure string, or raises
InvokeCall(name, arguments) ==
    [kind |-> "call", name |-> name, arguments |-> arguments, exc |-> ""]
\* lines 315-318
InvokeFailure ==
    [kind |-> "failure", name |-> JNull, arguments |-> JNull, exc |-> ""]
InvokeRaise(exc) ==
    [kind |-> "raise", name |-> JNull, arguments |-> JNull, exc |-> exc]

\* lines 297-301: Path A
InvokePathA(fn) ==
    IF IsStr(fn.arguments)
    THEN IF JsonLoads(fn.arguments.text).ok
         THEN InvokeCall(JString(fn.name), JsonLoads(fn.arguments.text).value)
         ELSE InvokeRaise("JSONDecodeError")
    ELSE InvokeCall(JString(fn.name), fn.arguments)

\* lines 304-313: Path B; JSONDecodeError and KeyError are caught (line 312)
InvokePathB(content) ==
    LET loaded == JsonLoads(StripText(content))
        parsed == loaded.value
        args == DictGet(parsed.d, "arguments",
                        DictGet(parsed.d, "parameters", EmptyObject))
    IN  IF ~loaded.ok THEN InvokeFailure
        ELSE IF ~HasName(parsed).ok THEN InvokeRaise("TypeError")
        ELSE IF ~HasName(parsed).value THEN InvokeFailure
        ELSE IF parsed.jt # "object" THEN InvokeRaise("AttributeError")
        ELSE IF IsStr(args)
        THEN IF JsonLoads(args.text).ok
             THEN InvokeCall(parsed.d["name"], JsonLoads(args.text).value)
             ELSE InvokeFailure
        ELSE InvokeCall(parsed.d["name"], args)

\* bool(response.content) (line 303)
HasContent(response) ==
    response.content # None /\ response.content[1].chars # <<>>

\* lines 293-318: from the message of the first choice to what invoke does
Invoke(response) ==
    IF response.tool_calls # <<>>
    THEN InvokePathA(response.tool_calls[1].function)
    ELSE IF HasContent(response)
    THEN InvokePathB(response.content[1])
    ELSE InvokeFailure

\* ---- the responses of the completion endpoint
RoomArgs(room) == JObject([k \in {"room"} |-> JString(Text(<<room>>))])

\* a JSON document encoding value (json.dumps)
Encoded(chars, value) == JString(JsonText(<<chars>>, value))

\* fn.arguments of a structured tool call: a mapping, a JSON string of a
\* mapping, of a number, of a JSON string of a mapping, no JSON at all, None
ToolCallArguments ==
    { RoomArgs("kitchen"),
      Encoded("{\"room\": \"kitchen\"}", RoomArgs("kitchen")),
      Encoded("5", JNumber(5)),
      Encoded("\"{\\\"room\\\": \\\"kitchen\\\"}\"",
              Encoded("{\"room\": \"kitchen\"}", RoomArgs("kitchen"))),
      JString(Text(<<"{room: ">>)),
      JNull }

ToolCalls ==
    { <<>> } \cup
    { << [function |-> [name |-> Text(<<"toggle_lights">>), arguments |-> a]] >> :
        a \in ToolCallArguments }

\* the JSON objects a content can hold: with or without a name key, each of
\* arguments and parameters absent or given
ContentObjects ==
    { JObject(d) :
        d \in DictsOver(
            [k \in {"name", "arguments", "parameters"} |->
                CASE k = "name" -> { JString(Text(<<"lock_door">>)) }
                  [] k = "arguments" ->
                        { JNull, RoomArgs("bedroom"),
                          Encoded("{\"room\": \"bedroom\"}", RoomArgs("bedroom")),
                          JString(Text(<<"{room: ">>)) }
                  [] k = "parameters" ->
                        { RoomArgs("office"),
                          Encoded("{\"room\": \"office\"}", RoomArgs("office")),
                          JString(Text(<<"{room: ">>)) }]) }

\* the JSON values of the other types
ContentScalars ==
    { JNull, JTrue, JNumber(5),
      JString(Text(<<"my ", "name">>)), JString(Text(<<"hello">>)),
      JArray(<<JString(Text(<<"name">>))>>), JArray(<<JNumber(1)>>) }

\* response.content: None, "", blank, text that is no JSON, a JSON document
\* (one of them with white space around it)
Contents ==
    { None, Some(Text(<<>>)), Some(Text(<<" ", " ">>)),
      Some(Text(<<"S", "u", "r", "e", ".">>)) }
    \cup { Some(JsonText(<<"<JSON>">>, value)) : value \in ContentObjects \cup ContentScalars }
    \cup { Some(JsonText(<<" ", "<JSON>", "\n">>, JNumber(5))),
           Some(JsonText(<<" ", "<JSON>", "\n">>,
                         JObject([k \in {"name"} |-> JString(Text(<<"lock_door">>))]))) }

Responses == { [tool_calls |-> tc, content |-> c] : tc \in ToolCalls, c \in Contents }

\* ---- the functions called on their own
NoResponse == [tool_calls |-> <<>>, content |-> None]
NoInvoke == [kind |-> "none", name |-> JNull, arguments |-> JNull, exc |-> ""]

\* lines 278-318: one call of invoke; the endpoint answered response and the
\* call took latency_ms (nothing is returned when invoke raises)
InvokeOn(response, latency_ms) ==
    /\ fn_called' = [fn |-> "invoke", response |-> response, function |-> "",
                     missing_args |-> <<>>]
    /\ fn_returned' = [result |-> Invoke(response),
                       latency_ms |-> IF Invoke(response).kind = "raise" THEN 0
                                      ELSE latency_ms,
                       text |-> <<>>]
    /\ UNCHANGED <<ex_vars, orch_vars, pair_vars>>

\* lines 415-425: one call of generate_slot_elicitation
GenerateSlotElicitationOn(function, missing_args) ==
    /\ fn_called' = [fn |-> "generate_slot_elicitation", response |-> NoResponse,
                     function |-> function, missing_args |-> missing_args]
    /\ fn_returned' = [result |-> NoInvoke, latency_ms |-> 0,
                       text |-> GenerateSlotElicitation(function, missing_args)]
    /\ UNCHANGED <<ex_vars, orch_vars, pair_vars>>

\* the functions and argument names generate_slot_elicitation is called with:
\* slots with a declared phrase, slots without, a function without phrases
ElicitFunctions == {"toggle_lights", "get_device_status", "open_garage"}
ElicitArgs == {"room", "state", "device_type"}

\* the non-empty lists of distinct argument names
MissingArgLists ==
    { m \in UNION { [1..n -> ElicitArgs] : n \in 1..Cardinality(ElicitArgs) } :
        \A i, j \in 1..Len(m) : i # j => m[i] # m[j] }

\* the state after TextOrchestrator.__init__ (lines 327-332), no execute_action
\* call made yet
Init ==
    /\ ex_pc = "idle"
    /\ attempt = 0
    /\ request_id = 0
    /\ payload = [action |-> "", request_id |-> 0]
    /\ last_error = ""
    /\ outcomes = <<>>
    /\ sent = <<>>
    /\ sleeps = <<>>
    /\ result = None
    /\ issued = {}
    /\ done_ids = <<>>
    /\ conversation_history = <<>>
    /\ last_function_call = None
    /\ last_latency_ms = 0
    /\ turn = [op |-> "init", transcript |-> "", slm |-> NoSlm, out |-> NoOut,
               route |-> "none", calls |-> <<>>]
    /\ nturns = 0
    /\ lists = [a \in Addresses |-> <<>>]
    /\ orchestrators =
        [i \in Instances |->
            [conversation_history |-> InitList(i), last_function_call |-> None,
             last_latency_ms |-> 0]]
    /\ module_tables = ModuleTables
    /\ fed = [i \in Instances |-> <<>>]
    /\ replied = [i \in Instances |-> <<>>]
    /\ acted = 0
    /\ fn_called = [fn |-> "none", response |-> NoResponse, function |-> "",
                    missing_args |-> <<>>]
    /\ fn_returned = [result |-> NoInvoke, latency_ms |-> 0, text |-> <<>>]

\* the dispatcher
ExecNext ==
    \/ \E a \in ActionNames : Call(a)
    \/ \E o \in Outcomes : Post(o)
    \/ Sleep

ExecSpec == Init /\ [][ExecNext]_vars

\* the orchestrator
Next ==
    \/ \E t \in Transcripts :
        \E slm \in SlmResultsFor(t), l \in Latencies : ProcessUtterance(t, slm, l)
    \/ Reset

Spec == Init /\ [][Next]_vars

\* several orchestrators, their calls interleaved in any order
PairNext ==
    \/ \E i \in Instances, t \in PairTranscripts :
        \E slm \in PairSlmResultsFor(t), l \in Latencies :
            ProcessUtteranceOn(i, t, slm, l)
    \/ \E i \in Instances : ResetOn(i)

PairSpec == Init /\ [][PairNext]_vars

\* invoke and generate_slot_elicitation, each called with every input
FnNext ==
    \/ \E response \in Responses, l \in Latencies : InvokeOn(response, l)
    \/ \E f \in ElicitFunctions, m \in MissingArgLists : GenerateSlotElicitationOn(f, m)

FnSpec == Init /\ [][FnNext]_vars

(***************************************************************************)
(*              Properties of execute_action (ExecSpec)                    *)
(***************************************************************************)
\* the last call has returned
Returned == ex_pc = "idle" /\ result # None

Is2xxResponse(o) == o.kind = "response" /\ o.status \in 200..299

NonSuccessBelow500(o) == o.kind = "response" /\ ~Is2xxResponse(o) /\ o.status < 500

\* C1: whatever the delivery outcomes, execute_action makes at most
\* 1 + MAX_RETRIES = 3 attempts and has returned once the third is made; when
\* every response is a 500 it makes exactly 3 attempts and returns ok=false.
C1_RetryBound ==
    /\ Len(outcomes) <= 3
    /\ (Len(outcomes) = 3 => Returned)
    /\ (Returned /\ \A i \in 1..Len(outcomes) :
                        outcomes[i].kind = "response" /\ outcomes[i].status = 500)
        => (Len(outcomes) = 3 /\ ~result[1].ok)

C1_Witness ==
    /\ Returned
    /\ Len(outcomes) = 3
    /\ \A i \in 1..3 : outcomes[i].kind = "response" /\ outcomes[i].status = 500
    /\ ~result[1].ok

\* C2: an attempt that receives a non-2xx status below 500 is the last one of
\* its call, on whichever attempt it occurs: the call has returned ok=false
\* with that status code (a first-attempt 404 gives exactly 1 attempt).
C2_ClientErrorEndsDispatch ==
    \A i \in 1..Len(outcomes) :
        NonSuccessBelow500(outcomes[i]) =>
            /\ i = Len(outcomes)
            /\ Returned
            /\ ~result[1].ok
            /\ result[1].status_code = Some(outcomes[i].status)

C2_Witness ==
    /\ Returned
    /\ Len(outcomes) = 2
    /\ outcomes[1].kind = "exception"
    /\ outcomes[2].kind = "response" /\ outcomes[2].status = 404
    /\ result[1].status_code = Some(404)

\* C3: within one call the request_id posted is the same on every attempt and
\* is the request_id of the returned result; the results of distinct calls
\* carry different request_ids.
C3_RequestIdStable ==
    /\ \A i, j \in 1..Len(sent) : sent[i] = sent[j]
    /\ Returned => \A i \in 1..Len(sent) : sent[i] = result[1].request_id
    /\ \A i, j \in 1..Len(done_ids) : i # j => done_ids[i] # done_ids[j]

C3_Witness ==
    /\ Returned
    /\ Len(sent) = 3
    /\ Len(done_ids) = 2
    /\ done_ids[2] = result[1].request_id

\* C4 as stated: a call that used all 3 attempts without a 2xx response returns
\* ok=false, status_code=null, the last error text and no raw response.
C4_Original ==
    (Returned /\ Len(outcomes) = 3 /\ ~Is2xxResponse(outcomes[3])) =>
        /\ ~result[1].ok
        /\ result[1].status_code = None
        /\ result[1].message = last_error
        /\ result[1].raw_response = None

\* C4 amended: after 3 attempts without a 2xx response the result has ok=false
\* and the last recorded error text as message; status_code is null and
\* raw_response absent when the third attempt raised a transport exception,
\* and they are the status and the body of the third response when it was an
\* HTTP response (a 5xx included).
C4_Exhaustion ==
    (Returned /\ Len(outcomes) = 3 /\ ~Is2xxResponse(outcomes[3])) =>
        /\ ~result[1].ok
        /\ IF outcomes[3].kind = "exception"
           THEN /\ result[1].status_code = None
                /\ result[1].raw_response = None
                /\ result[1].message = outcomes[3].text
           ELSE /\ result[1].status_code = Some(outcomes[3].status)
                /\ result[1].raw_response = Some(outcomes[3].body)
                /\ result[1].message = "HTTP " \o ToString(outcomes[3].status)

C4_Witness ==
    /\ Returned
    /\ Len(outcomes) = 3
    /\ outcomes[1].kind = "response" /\ outcomes[1].status = 503
    /\ outcomes[2].kind = "exception"
    /\ outcomes[3].kind = "exception" /\ outcomes[3].text = "timed out"
    /\ result[1].message = "timed out"
    /\ result[1].status_code = None

(***************************************************************************)
(*              Properties of TextOrchestrator (Spec)                      *)
(***************************************************************************)
\* the last operation was a turn in which the completion client returned a call
TurnCall == turn.op = "utterance" /\ turn.slm.kind = "call"

Declared(name) ==
    name \in {"toggle_lights", "set_thermostat", "lock_door", "get_device_status",
              "set_scene", "intent_unclear"}

\* the required arguments the schema declares, in order
RequiredOf(name) == IF Declared(name) THEN FUNCTION_REQUIRED_ARGS[name] ELSE <<>>

\* the call supplies argument a: its key is there and its value is not null
Supplied(args, a) == a \in DOMAIN args /\ args[a] # PyNone

AllRequiredPresent(call) ==
    \A i \in 1..Len(RequiredOf(call.name)) :
        Supplied(call.arguments, RequiredOf(call.name)[i])

\* x occurs in the text
Contains(text, x) == x = "" \/ \E i \in 1..Len(text) : text[i] = x

Count(seq, x) == Cardinality({ i \in 1..Len(seq) : seq[i] = x })

IsElicitation(out) ==
    out.kind = "reply" /\ out.text # <<>> /\ out.text[1] = "Could you provide "

IsClarification(out) ==
    /\ out.kind = "reply"
    /\ Len(out.text) = 12
    /\ out.text[1] = "I didn't quite understand that. Could you tell me what you need? "

\* the elicitation phrases of function name that occur in text, in order
PhrasesIn(text, name) ==
    LET prompts == INDIVIDUAL_SLOT_PROMPTS[name]
        IsPhrase(p) == \E a \in DOMAIN prompts : prompts[a] = p
    IN  SelectSeq(text, IsPhrase)

\* the phrases of the required arguments the call does not supply, in the order
\* FUNCTION_REQUIRED_ARGS declares them
MissingPhrases(call) ==
    LET NotSupplied(a) == ~Supplied(call.arguments, a)
        miss == SelectSeq(RequiredOf(call.name), NotSupplied)
    IN  [i \in 1..Len(miss) |-> INDIVIDUAL_SLOT_PROMPTS[call.name][miss[i]]]

\* C5: a call of a declared function that supplies only K < N of its N required
\* arguments is answered by an elicitation question holding the phrases of
\* exactly the N-K missing required arguments, in declared order, and the
\* phrase of no supplied or optional argument.
C5_ElicitsExactlyMissing ==
    (TurnCall /\ Declared(turn.slm.name) /\ ~AllRequiredPresent(turn.slm)) =>
        /\ IsElicitation(turn.out)
        /\ PhrasesIn(turn.out.text, turn.slm.name) = MissingPhrases(turn.slm)

C5_Witness ==
    /\ TurnCall
    /\ turn.slm.name = "toggle_lights"
    /\ DOMAIN turn.slm.arguments = {"state"}
    /\ turn.out.text =
        <<"Could you provide ",
          "which room (living room, bedroom, kitchen, bathroom, office, or hallway)",
          "?">>

\* C6: a required argument is asked for if and only if its key is absent or its
\* value is null; 0, the empty string and false are present values.
C6_MissingIffAbsentOrNull ==
    (TurnCall /\ Declared(turn.slm.name) /\ turn.slm.name # "intent_unclear") =>
        \A i \in 1..Len(RequiredOf(turn.slm.name)) :
            LET a == RequiredOf(turn.slm.name)[i]
                args == turn.slm.arguments
            IN  (/\ IsElicitation(turn.out)
                 /\ Contains(turn.out.text, INDIVIDUAL_SLOT_PROMPTS[turn.slm.name][a]))
                <=> (a \notin DOMAIN args \/ args[a].t = "none")

C6_Witness ==
    /\ TurnCall
    /\ turn.slm.name = "toggle_lights"
    /\ DOMAIN turn.slm.arguments = {"room", "state"}
    /\ turn.slm.arguments["room"] = PyStr("")
    /\ turn.slm.arguments["state"] = PyFalse
    /\ turn.route = "execute"
    /\ ~IsElicitation(turn.out)

\* C7 as stated: a call (other than intent_unclear) with all required arguments
\* present is dispatched through execute_action exactly once in its turn.
C7_Original ==
    (TurnCall /\ turn.slm.name # "intent_unclear" /\ AllRequiredPresent(turn.slm)) =>
        Count(turn.calls, "execute_action") = 1

\* C7 amended: such a call is handed exactly once to the simulated backend
\* (call_backend_api) in its turn, and execute_action is not called.
C7_OneBackendCall ==
    (TurnCall /\ turn.slm.name # "intent_unclear" /\ AllRequiredPresent(turn.slm)) =>
        /\ Count(turn.calls, "call_backend_api") = 1
        /\ Count(turn.calls, "execute_action") = 0

C7_Witness ==
    /\ TurnCall
    /\ turn.slm.name = "lock_door"
    /\ AllRequiredPresent(turn.slm)
    /\ turn.calls = <<"slm.invoke", "call_backend_api">>

DirectFields(name) ==
    CASE name = "toggle_lights" -> {"state"}
      [] name = "set_thermostat" -> {"temperature"}
      [] name = "lock_door" -> {"door", "state"}
      [] name = "set_scene" -> {"scene"}
      [] OTHER -> {}

C9_NoBackendWhenAsking ==
    (turn.op = "utterance" /\ (IsElicitation(turn.out) \/ IsClarification(turn.out))) =>
        /\ Count(turn.calls, "call_backend_api") = 0
        /\ Count(turn.calls, "execute_action") = 0

C9_Witness ==
    /\ TurnCall
    /\ turn.slm.name = "lock_door"
    /\ turn.slm.arguments = [k \in {"door"} |-> PyStr("garage")]
    /\ turn.out.text = <<"Could you provide ", "whether to lock or unlock it", "?">>
    /\ turn.calls = <<"slm.invoke">>

\* C10: a call whose name FUNCTION_REQUIRED_ARGS does not hold is never
\* answered by an elicitation: whatever its arguments, it is executed in the
\* same turn and an execution reply is returned.
C10_UnknownFunctionExecutes ==
    (TurnCall /\ ~Declared(turn.slm.name)) =>
        /\ turn.route = "execute"
        /\ Count(turn.calls, "call_backend_api") = 1
        /\ turn.out.kind = "reply"
        /\ turn.out.text = <<"Done.">>

C10_Witness ==
    /\ TurnCall
    /\ turn.slm.name = "open_garage"
    /\ turn.slm.arguments = [k \in {"door"} |-> PyNone]
    /\ turn.route = "execute"
    /\ turn.out.text = <<"Done.">>

\* a history entry in the tool_calls format
IsToolCallTurn(m) == m.tool_calls # None

\* the call a tool-call turn records
RecordedCall(m) ==
    [name |-> m.tool_calls[1].function.name,
     arguments |-> m.tool_calls[1].function.arguments.json]

\* the entries the last step appended to the history
Appended(before, after) == SubSeq(after, Len(before) + 1, Len(after))

\* C11 as stated: every tool-call turn of the history records a call that had
\* all its required arguments; a call with a missing required argument is
\* never in the history as a tool-call turn.
C11_Original ==
    \A i \in 1..Len(conversation_history) :
        IsToolCallTurn(conversation_history[i]) =>
            AllRequiredPresent(RecordedCall(conversation_history[i]))

\* C11 amended: a turn in which the completion client returned a call appends,
\* right after the user turn and before the call is routed, one tool-call turn
\* recording that call's name and arguments, whether or not a required
\* argument is missing (intent_unclear included); a turn in which it returned
\* no call appends no tool-call turn.
C11_ToolCallTurnForEveryCall ==
    [][turn'.op = "utterance" =>
        LET added == Appended(conversation_history, conversation_history')
        IN  IF turn'.slm.kind = "call"
            THEN /\ Len(added) >= 2
                 /\ IsToolCallTurn(added[2])
                 /\ added[2].role = "assistant"
                 /\ added[2].content = None
                 /\ RecordedCall(added[2]) =
                        [name |-> turn'.slm.name, arguments |-> turn'.slm.arguments]
                 /\ \A i \in 1..Len(added) : IsToolCallTurn(added[i]) => i = 2
            ELSE \A i \in 1..Len(added) : ~IsToolCallTurn(added[i])]_vars

C11_Witness ==
    /\ TurnCall
    /\ turn.slm.name = "lock_door"
    /\ turn.slm.arguments = [k \in {"door"} |-> PyStr("garage")]
    /\ IsElicitation(turn.out)
    /\ Len(conversation_history) = 3
    /\ IsToolCallTurn(conversation_history[2])
    /\ RecordedCall(conversation_history[2]) =
            [name |-> "lock_door", arguments |-> [k \in {"door"} |-> PyStr("garage")]]

\* the last operation was a turn that ended on the exit sentinel
TurnEnded == turn.op = "utterance" /\ turn.out.kind = "end"

\* C12 as stated: once process_utterance has returned the end signal on an exit
\* sentinel, a following process_utterance call made before any reset() is not
\* accepted as a turn: it does not invoke the completion client and appends
\* nothing to the history.
C12_Original ==
    [][(TurnEnded /\ turn'.op = "utterance") =>
        /\ Count(turn'.calls, "slm.invoke") = 0
        /\ conversation_history' = conversation_history]_vars

\* C13: a process_utterance call whose transcript is "quit" or "exit" in any
\* letter case returns the end signal (None), invokes no completion client,
\* and leaves conversation_history, last_function_call and last_latency_ms
\* as they were.
C13_ExitSentinelTouchesNothing ==
    [][(turn'.op = "utterance" /\ turn'.transcript \in {"quit", "EXIT", "Quit"}) =>
        /\ turn'.out.kind = "end"
        /\ turn'.calls = <<>>
        /\ conversation_history' = conversation_history
        /\ last_function_call' = last_function_call
        /\ last_latency_ms' = last_latency_ms]_vars

C13_Witness ==
    /\ turn.op = "utterance"
    /\ turn.transcript = "EXIT"
    /\ turn.out.kind = "end"
    /\ Len(conversation_history) = 3
    /\ last_function_call # None
    /\ last_latency_ms = 12

\* C14: a turn in which the completion client returns a RawFailure appends
\* exactly two entries to the history, the user turn holding the transcript
\* and then one assistant text turn with empty content, and returns the fixed
\* clarification message.
C14_FailureAppendsPlaceholder ==
    [][(turn'.op = "utterance" /\ turn'.slm.kind = "failure") =>
        /\ Appended(conversation_history, conversation_history') =
            << [role |-> "user", content |-> Some(<<turn'.transcript>>),
                tool_calls |-> None],
               [role |-> "assistant", content |-> Some(<<>>), tool_calls |-> None] >>
        /\ SubSeq(conversation_history', 1, Len(conversation_history)) =
                conversation_history
        /\ turn'.out = [kind |-> "reply", exc |-> "",
                        text |-> GenerateClarificationResponse]]_vars

C14_Witness ==
    /\ turn.op = "utterance"
    /\ turn.slm.kind = "failure"
    /\ nturns = 2
    /\ Len(conversation_history) = 5
    /\ conversation_history[5] =
            [role |-> "assistant", content |-> Some(<<>>), tool_calls |-> None]
    /\ IsClarification(turn.out)

\* the last operation was a turn in which the client returned intent_unclear
IsUnclearTurn(t) == t.op = "utterance" /\ t.slm.kind = "call" /\ t.slm.name = "intent_unclear"

\* C15 as stated: an intent_unclear call is answered like a RawFailure for
\* every value of reason: the reply is the fixed clarification message and the
\* history gains the user turn and an empty assistant placeholder.
C15_Original ==
    [][IsUnclearTurn(turn') =>
        /\ turn'.out = [kind |-> "reply", exc |-> "",
                        text |-> GenerateClarificationResponse]
        /\ Appended(conversation_history, conversation_history') =
            << [role |-> "user", content |-> Some(<<turn'.transcript>>),
                tool_calls |-> None],
               [role |-> "assistant", content |-> Some(<<>>), tool_calls |-> None] >>]_vars

\* C15 amended: an intent_unclear call is answered by the fixed clarification
\* message for every value of reason (absent, null or given) and reaches no
\* backend; the history gains three entries: the user turn, the tool-call turn
\* recording the intent_unclear call, and an assistant text turn holding the
\* clarification message.
C15_UnclearClarifiesAndRecords ==
    [][IsUnclearTurn(turn') =>
        /\ turn'.out = [kind |-> "reply", exc |-> "",
                        text |-> GenerateClarificationResponse]
        /\ turn'.calls = <<"slm.invoke">>
        /\ SubSeq(conversation_history', 1, Len(conversation_history)) =
                conversation_history
        /\ Appended(conversation_history, conversation_history') =
            << [role |-> "user", content |-> Some(<<turn'.transcript>>),
                tool_calls |-> None],
               [role |-> "assistant", content |-> None,
                tool_calls |-> Some([type |-> "function",
                                     function |->
                                        [name |-> "intent_unclear",
                                         arguments |->
                                            [json |-> turn'.slm.arguments]]])],
               [role |-> "assistant", content |-> Some(GenerateClarificationResponse),
                tool_calls |-> None] >>]_vars

C15_Witness ==
    /\ IsUnclearTurn(turn)
    /\ turn.slm.arguments = [k \in {"reason"} |-> PyStr("off_topic")]
    /\ IsClarification(turn.out)
    /\ Len(conversation_history) = 3
    /\ IsToolCallTurn(conversation_history[2])
    /\ conversation_history[3].content = Some(GenerateClarificationResponse)

\* C16 as stated: whatever the completion client returns (a RawFailure, or a
\* call with any name and any arguments over declared and undeclared keys),
\* process_utterance returns a string reply and raises no exception.
C16_Original ==
    (turn.op = "utterance" /\ turn.slm.kind \in {"call", "failure"}) =>
        turn.out.kind = "reply"

\* d without the keys outside S
Restrict(d, S) == [k \in DOMAIN d \cap S |-> d[k]]

\* the call without the argument keys its schema does not declare
DeclaredPart(call) ==
    SlmCall(call.name, Restrict(call.arguments, TOOLS_PROPERTIES[call.name]))

\* C17 as stated: argument keys the function's schema does not declare are
\* ignored: a call carrying such keys is routed and answered as the same call
\* without them.
C17_Original ==
    (TurnCall /\ Declared(turn.slm.name)
        /\ DOMAIN turn.slm.arguments \ TOOLS_PROPERTIES[turn.slm.name] # {}) =>
        \E r \in HandleFunctionCall(DeclaredPart(turn.slm)) :
            r.route = turn.route /\ r.out = turn.out

\* C18: every process_utterance call leaves the history it found as a prefix
\* of the new history (the history is append-only between two resets), and
\* reset() empties the history and sets last_function_call to None and
\* last_latency_ms to 0.
C18_AppendOnlyUntilReset ==
    [][/\ turn'.op = "utterance" =>
            /\ Len(conversation_history') >= Len(conversation_history)
            /\ SubSeq(conversation_history', 1, Len(conversation_history)) =
                    conversation_history
       /\ turn'.op = "reset" =>
            /\ conversation_history' = <<>>
            /\ last_function_call' = None
            /\ last_latency_ms' = 0]_vars

C18_Witness ==
    /\ turn.op = "reset"
    /\ nturns = 2
    /\ conversation_history = <<>>
    /\ last_function_call = None
    /\ last_latency_ms = 0

IsStatusCall(c) ==
    /\ c.op = "utterance"
    /\ c.slm.kind = "call"
    /\ c.slm.name = "get_device_status"
    /\ AllRequiredPresent(c.slm)

\* entry j of a history is the reply to an executed get_device_status call
IsStatusReply(h, j) ==
    /\ j > 1
    /\ h[j].content # None
    /\ IsToolCallTurn(h[j - 1])
    /\ RecordedCall(h[j - 1]).name = "get_device_status"

OrchestratorState(i) ==
    [conversation_history |-> HistoryOf(i),
     last_function_call |-> orchestrators[i].last_function_call,
     last_latency_ms |-> orchestrators[i].last_latency_ms]

\* C20: under every interleaving of the calls made on two orchestrators, a
\* process_utterance or reset on one of them leaves the other's
\* conversation_history, last_function_call and last_latency_ms unchanged,
\* and the module-level tables keep the value they were loaded with.
C20_InstancesIndependent ==
    [][/\ \A i \in Instances :
            i # acted' => OrchestratorState(i)' = OrchestratorState(i)
       /\ module_tables' = ModuleTables]_vars

C20_Witness ==
    /\ acted = 1
    /\ Len(fed[1]) = 2
    /\ fed[1][1].op = "utterance"
    /\ fed[1][2].op = "reset"
    /\ HistoryOf(1) = <<>>
    /\ Len(HistoryOf(2)) = 3
    /\ orchestrators[2].last_function_call # None
    /\ orchestrators[2].last_latency_ms = 12
    /\ module_tables = ModuleTables

\* C21 as stated: SLMClient.invoke never raises because of the shape of the
\* endpoint's response; for every response it returns a FunctionCall or a
\* RawFailure string, together with a latency value.
C21_Original ==
    fn_called.fn = "invoke" =>
        /\ fn_returned.result.kind \in {"call", "failure"}
        /\ fn_returned.latency_ms \in Latencies

IsException(o) == o.kind = "exception"

\* C22: execute_action never raises for a delivery failure: whatever HTTP
\* responses and transport exceptions the attempts meet, a call that has ended
\* has returned an ActionExecutionResult; an exception on an attempt ends
\* the call only when it is the third attempt, and then the result is ok=false
\* without status code or body, its message the text of that last exception
\* (so it is for three consecutive exceptions).
C22_DeliveryFailureIsAResult ==
    /\ (ex_pc = "idle" /\ outcomes # <<>>) =>
            /\ result # None
            /\ result[1].ok \in BOOLEAN
            /\ result[1].request_id = request_id
    /\ (Returned /\ IsException(outcomes[Len(outcomes)])) =>
            /\ Len(outcomes) = MAX_RETRIES + 1
            /\ result[1] = [ok |-> FALSE, status_code |-> None,
                            message |-> outcomes[Len(outcomes)].text,
                            request_id |-> request_id, raw_response |-> None]
    /\ (Len(outcomes) = 3 /\ \A i \in 1..3 : IsException(outcomes[i])) =>
            /\ Returned
            /\ ~result[1].ok
            /\ result[1].message = outcomes[3].text

C22_Witness ==
    /\ Returned
    /\ Len(outcomes) = 3
    /\ \A i \in 1..3 : IsException(outcomes[i])
    /\ outcomes[1].text = "timed out"
    /\ outcomes[2].text = "timed out"
    /\ outcomes[3].text = "connection refused"
    /\ ~result[1].ok
    /\ result[1].message = "connection refused"

\* the JSON document the stripped content holds, if it is one
ContentJson(response) ==
    IF HasContent(response) THEN StripText(response.content[1]).json ELSE None

\* the content holds a JSON object with a name key
ContentHoldsCall(response) ==
    /\ ContentJson(response) # None
    /\ ContentJson(response)[1].jt = "object"
    /\ "name" \in DOMAIN ContentJson(response)[1].d

\* arguments that are a mapping, another value, or a string holding JSON
Decodable(a) == IsStr(a) => a.text.json # None

\* arguments decoded once when they arrive as a JSON-encoded string
DecodedOnce(a) == IF IsStr(a) THEN a.text.json[1] ELSE a

\* the arguments of a call found in the content
ContentArguments(d) ==
    IF "arguments" \in DOMAIN d THEN d["arguments"]
    ELSE IF "parameters" \in DOMAIN d THEN d["parameters"]
    ELSE EmptyObject

\* C23 as stated: invoke applies the parse precedence, first success wins:
\* the structured tool call is used whatever the content holds; otherwise a
\* JSON object in the content with a name key is used, with its arguments key,
\* or its parameters key when arguments is absent; otherwise a RawFailure
\* string is returned; string arguments are decoded exactly once.
C23_Original ==
    fn_called.fn = "invoke" =>
        LET response == fn_called.response
            returned == fn_returned.result
        IN  IF response.tool_calls # <<>>
            THEN LET fn == response.tool_calls[1].function
                 IN  Decodable(fn.arguments) =>
                        returned = InvokeCall(JString(fn.name), DecodedOnce(fn.arguments))
            ELSE IF ContentHoldsCall(response)
            THEN LET d == ContentJson(response)[1].d
                 IN  Decodable(ContentArguments(d)) =>
                        returned = InvokeCall(d["name"], DecodedOnce(ContentArguments(d)))
            ELSE returned.kind = "failure"

\* the phrase generate_slot_elicitation is to use for an argument of a function
DeclaredPhrase(function, arg) ==
    IF function \in DOMAIN INDIVIDUAL_SLOT_PROMPTS
       /\ arg \in DOMAIN INDIVIDUAL_SLOT_PROMPTS[function]
    THEN INDIVIDUAL_SLOT_PROMPTS[function][arg]
    ELSE CASE arg = "room" -> "the room"
           [] arg = "state" -> "the state"
           [] arg = "device_type" -> "the device type"

\* the question is "Could you provide ", the phrases of the missing slots in
\* order, each followed by ", " except the last two, which lastSep separates,
\* and "?"
QuestionWith(lastSep) ==
    LET text == fn_returned.text
        function == fn_called.function
        missing_args == fn_called.missing_args
        n == Len(missing_args)
    IN  /\ Len(text) = 2 * n + 1
        /\ text[1] = "Could you provide "
        /\ text[2 * n + 1] = "?"
        /\ \A i \in 1..n : text[2 * i] = DeclaredPhrase(function, missing_args[i])
        /\ \A i \in 1..(n - 2) : text[2 * i + 1] = ", "
        /\ n > 1 => text[2 * n - 1] = lastSep

\* C24 as stated: for one missing slot the question is
\* "Could you provide {phrase}?"; for N>1 the phrases appear in order separated
\* by commas with a final "and" before the last phrase and no comma directly
\* before that "and"; a slot without a declared phrase uses "the " and the
\* argument name with its underscores replaced by spaces.
C24_Original ==
    fn_called.fn = "generate_slot_elicitation" => QuestionWith(" and ")

\* C24 amended: as stated, except that for N>1 a comma stands directly before
\* the final "and": "Could you provide {phrase_1}, ..., and {phrase_N}?", also
\* for N = 2.
C24_CommaBeforeFinalAnd ==
    fn_called.fn = "generate_slot_elicitation" => QuestionWith(", and ")

C24_Witness ==
    /\ fn_called.fn = "generate_slot_elicitation"
    /\ fn_called.function = "toggle_lights"
    /\ fn_called.missing_args = <<"room", "device_type", "state">>
    /\ fn_returned.text =
        <<"Could you provide ",
          "which room (living room, bedroom, kitchen, bathroom, office, or hallway)",
          ", ", "the device type", ", and ", "whether to turn them on or off", "?">>

\* C25: the first 2xx response ends the delivery loop: the attempt that
\* receives it is the last of its call, whatever failures preceded it, and the
\* call has returned ok=true with that status code and the response body,
\* unchanged, as raw_response.
C25_First2xxEndsDispatch ==
    \A k \in 1..Len(outcomes) :
        Is2xxResponse(outcomes[k]) =>
            /\ k = Len(outcomes)
            /\ k <= MAX_RETRIES + 1
            /\ Returned
            /\ result[1].ok
            /\ result[1].status_code = Some(outcomes[k].status)
            /\ result[1].raw_response = Some(outcomes[k].body)
            /\ Len(sleeps) = k - 1

C25_Witness ==
    /\ Returned
    /\ Len(outcomes) = 3
    /\ outcomes[1].kind = "response" /\ outcomes[1].status = 503
    /\ IsException(outcomes[2])
    /\ outcomes[3].kind = "response" /\ outcomes[3].status = 299
    /\ outcomes[3].body.kind = "text" /\ outcomes[3].body.text = <<" ", "o", "k", " ">>
    /\ result[1].ok
    /\ result[1].status_code = Some(299)
    /\ result[1].raw_response = Some(outcomes[3].body)

\* the first n characters of a text, as one string
FirstChars(text, n) == Concat(SubSeq(text, 1, Min(n, Len(text))))

\* the message of a 2xx result whose body is a JSON object: its message
\* field, else its title field, else the default accepted string
ObjectMessage(body) ==
    IF "message" \in DOMAIN body.fields THEN body.fields["message"]
    ELSE IF "title" \in DOMAIN body.fields THEN body.fields["title"]
    ELSE "Action accepted"

\* the 2xx response the last call returned on
ReturnedOn2xx == Returned /\ Is2xxResponse(outcomes[Len(outcomes)])

\* C26 as stated: on a 2xx response the message is the body's message field
\* if the body is a JSON object that has one, else its title field, else the
\* default accepted string; for a non-JSON body it is the first 200 characters
\* of the raw text.
C26_Original ==
    ReturnedOn2xx =>
        LET body == outcomes[Len(outcomes)].body
        IN  /\ body.kind = "dict" => result[1].message = ObjectMessage(body)
            /\ body.kind = "text" => result[1].message = FirstChars(body.text, 200)

\* C26 amended: for a JSON object the message is its message field, else its
\* title field, else "Action accepted"; for a non-JSON body it is the first 200
\* characters of the text with its leading and trailing whitespace removed,
\* and "Action accepted" when nothing but whitespace is left; for any other
\* JSON value it is "Action accepted".
C26_MessageByPrecedence ==
    ReturnedOn2xx =>
        LET body == outcomes[Len(outcomes)].body
        IN  /\ body.kind = "dict" => result[1].message = ObjectMessage(body)
            /\ (body.kind = "text" /\ \E i \in 1..Len(body.text) : ~IsSpace(body.text[i]))
                    => result[1].message = FirstChars(Strip(body.text), 200)
            /\ (body.kind = "text" /\ \A i \in 1..Len(body.text) : IsSpace(body.text[i]))
                    => result[1].message = "Action accepted"
            /\ body.kind = "list" => result[1].message = "Action accepted"

C26_Witness ==
    /\ ReturnedOn2xx
    /\ outcomes[Len(outcomes)].body.kind = "text"
    /\ Len(outcomes[Len(outcomes)].body.text) = 202
    /\ result[1].message = Concat([i \in 1..200 |-> "a"])
    /\ result[1].message # FirstChars(outcomes[Len(outcomes)].body.text, 200)

\* C27: the backoff delay is linear in the attempt number: the k-th delay of a
\* call, between attempt k and attempt k+1, is k times 250 ms, for k = 1, 2;
\* a delay is always followed by another attempt, so a call that has returned
\* slept once less than it attempted: never after its final attempt, whether
\* that was the third or one that ended the dispatch earlier.
C27_LinearBackoffBetweenAttempts ==
    /\ Len(sleeps) <= 2
    /\ \A k \in 1..Len(sleeps) : sleeps[k] = 250 * k
    /\ ex_pc = "post" => Len(sleeps) = Len(outcomes)
    /\ ex_pc = "sleep" => Len(sleeps) = Len(outcomes) - 1
    /\ Returned => Len(sleeps) = Len(outcomes) - 1

C27_Witness ==
    /\ Returned
    /\ Len(outcomes) = 3
    /\ outcomes[3].kind = "response" /\ outcomes[3].status = 503
    /\ sleeps = <<250, 500>>

\* C28 as stated: when the completion call raises during process_utterance,
\* the error propagates to the caller and the orchestrator state is the same
\* as before the turn: conversation_history, last_function_call and
\* last_latency_ms are unchanged, so the history does not end with a user
\* turn.
C28_Original ==
    [][(turn'.op = "utterance" /\ turn'.slm.kind = "raise") =>
        /\ turn'.out.kind = "raise"
        /\ conversation_history' = conversation_history
        /\ last_function_call' = last_function_call
        /\ last_latency_ms' = last_latency_ms
        /\ \/ conversation_history' = <<>>
           \/ conversation_history'[Len(conversation_history')].role # "user"]_vars

====
